---- MODULE Spec2Model ----
(***************************************************************************)
(* Model of src/main.py: the modelling component's main(): the registry    *)
(* of predictive models keyed by sensor and horizon, the batch phases      *)
(* (init, fit, save, load), the watchdog branch and the Kafka ingestion    *)
(* loop that resolves a topic name to a model, predicts, evaluates and     *)
(* publishes.                                                              *)
(*                                                                         *)
(* Strings are sequences of one-character strings, so that str.format,     *)
(* str.split, slicing and int() are computed character by character.       *)
(* PredictiveModel (lib/predictive_model.py) is not part of the source     *)
(* tree; its methods are modelled from the specification's section 4.1.    *)
(***************************************************************************)
EXTENDS Integers, Sequences, FiniteSets, TLC

\* ------------------------------------------------------------------------
\* Bounds of the model
\* ------------------------------------------------------------------------
\* number of records the input stream delivers in one run
MaxRecords == 2

\* ------------------------------------------------------------------------
\* Strings
\* ------------------------------------------------------------------------
Digits == <<"0", "1", "2", "3", "4", "5", "6", "7", "8", "9">>

IsDigit(c) == \E i \in 1..10 : Digits[i] = c

DigitVal(c) == (CHOOSE i \in 1..10 : Digits[i] = c) - 1

\* str(n) for a non-negative integer, as "{}".format(n) prints it
RECURSIVE IntToStr(_)
IntToStr(n) ==
    IF n < 10 THEN <<Digits[n + 1]>>
    ELSE IntToStr(n \div 10) \o <<Digits[(n % 10) + 1]>>

\* value of a non-empty string of digits
RECURSIVE DigitsToInt(_)
DigitsToInt(s) ==
    IF Len(s) = 0 THEN 0
    ELSE 10 * DigitsToInt(SubSeq(s, 1, Len(s) - 1)) + DigitVal(s[Len(s)])

AllDigits(s) == Len(s) > 0 /\ \A i \in 1..Len(s) : IsDigit(s[i])

\* int(s): the literals a topic name can hold (Kafka topic names have no
\* whitespace and no "+"; "_" never survives the split): an optional "-"
\* followed by digits.  Anything else raises ValueError.
IntParses(s) ==
    \/ AllDigits(s)
    \/ Len(s) > 1 /\ s[1] = "-" /\ AllDigits(Tail(s))

IntOf(s) == IF s[1] = "-" THEN 0 - DigitsToInt(Tail(s)) ELSE DigitsToInt(s)

\* s.split(sep) for a one-character separator: the pieces between the
\* separators, empty pieces included
RECURSIVE Split(_, _)
Split(s, sep) ==
    IF \A i \in 1..Len(s) : s[i] # sep THEN <<s>>
    ELSE LET k == CHOOSE i \in 1..Len(s) :
                      s[i] = sep /\ \A j \in 1..(i - 1) : s[j] # sep
         IN  <<SubSeq(s, 1, k - 1)>> \o Split(SubSeq(s, k + 1, Len(s)), sep)

\* s[:-n] of Python: for n > 0 the string without its last n characters,
\* for n = 0 the slice s[:0], which is empty
DropLast(s, n) ==
    IF n = 0 \/ n >= Len(s) THEN <<>> ELSE SubSeq(s, 1, Len(s) - n)

features == <<"f", "e", "a", "t", "u", "r", "e", "s">>
predictions == <<"p", "r", "e", "d", "i", "c", "t", "i", "o", "n", "s">>
model_ == <<"m", "o", "d", "e", "l">>
dot_json == <<".", "j", "s", "o", "n">>
us == <<"_">>

\* ------------------------------------------------------------------------
\* File and topic names
\* ------------------------------------------------------------------------
\* the default value of the time_period parameter of the two file name helpers
DefaultTimePeriod == <<"h">>

get_model_file_name(sensor, horizon, time_period) ==
    model_ \o us \o sensor \o us \o IntToStr(horizon) \o time_period

get_data_file_name(sensor, horizon, time_period) ==
    sensor \o us \o IntToStr(horizon) \o time_period \o dot_json

\* one element of the list get_input_data_topics builds
InputTopic(sensor, horizon, time_period) ==
    features \o us \o sensor \o us \o IntToStr(horizon) \o time_period

\* topic names formatted with the default unit whatever the configured one
get_input_data_topics_DefaultUnit(sensors_, horizons_, time_period) ==
    [i \in 1..(Len(sensors_) * Len(horizons_)) |->
        InputTopic(sensors_[((i - 1) \div Len(horizons_)) + 1],
                   horizons_[((i - 1) % Len(horizons_)) + 1],
                   DefaultTimePeriod)]

get_input_data_topics(sensors_, horizons_, time_period) ==
    [i \in 1..(Len(sensors_) * Len(horizons_)) |->
        InputTopic(sensors_[((i - 1) \div Len(horizons_)) + 1],
                   horizons_[((i - 1) % Len(horizons_)) + 1],
                   time_period)]

output_topic(sensor) == predictions \o us \o sensor

\* ------------------------------------------------------------------------
\* Topic key resolution: the two lines that read sensor and horizon back
\* from msg.topic
\* ------------------------------------------------------------------------
\* horizon = int(topic.split("_")[-1][:-len(time_offset)]), then
\* sensor = topic.split("_")[-2]: int() raises ValueError, or else the index
\* -2 raises IndexError, or else the pair is there
Resolve(topic, time_offset_) ==
    LET parts == Split(topic, "_")
        text == DropLast(parts[Len(parts)], Len(time_offset_))
    IN  IF ~IntParses(text)
          THEN [exc |-> "ValueError", sensor |-> <<>>, horizon |-> 0]
        ELSE IF Len(parts) < 2
          THEN [exc |-> "IndexError", sensor |-> <<>>, horizon |-> 0]
        ELSE [exc |-> "none", sensor |-> parts[Len(parts) - 1],
              horizon |-> IntOf(text)]

\* ------------------------------------------------------------------------
\* Inputs: configuration files, command lines, topics and payloads
\* ------------------------------------------------------------------------
T == <<"t">>
B == <<"b">>
AB == <<"a", "_", "b">>

\* conf['sensors'], conf['prediction_horizons'] and conf['time_offset']
\* (after .lower()): one sensor with two horizons and the default unit, two
\* sensors with one horizon, and two sensors, one of them with an underscore
\* in its name, with a three-letter unit
AllKeys == {"sensors", "prediction_horizons", "time_offset"}

FullConfigs ==
    { [keys |-> AllKeys, sensors |-> <<T>>, prediction_horizons |-> <<2, 24>>,
       time_offset |-> <<"h">>],
      [keys |-> AllKeys, sensors |-> <<T, B>>, prediction_horizons |-> <<2>>,
       time_offset |-> <<"h">>],
      [keys |-> AllKeys, sensors |-> <<AB, B>>, prediction_horizons |-> <<2>>,
       time_offset |-> <<"m", "i", "n">>] }

\* configuration files in which 'sensors' or 'prediction_horizons' is not
\* there (keys lacks it, the variable of main() stays None and the field
\* here is never read) or is the empty list
PartialConfigs ==
    { [keys |-> AllKeys \ {"sensors"}, sensors |-> <<>>,
       prediction_horizons |-> <<2>>, time_offset |-> <<"h">>],
      [keys |-> AllKeys, sensors |-> <<>>,
       prediction_horizons |-> <<2>>, time_offset |-> <<"h">>],
      [keys |-> AllKeys \ {"prediction_horizons"}, sensors |-> <<T>>,
       prediction_horizons |-> <<>>, time_offset |-> <<"h">>],
      [keys |-> AllKeys, sensors |-> <<T>>,
       prediction_horizons |-> <<>>, time_offset |-> <<"h">>] }

Configs == FullConfigs \cup PartialConfigs

\* the command line: -f -s -l -p -w
ArgSets == [fit : BOOLEAN, save : BOOLEAN, load : BOOLEAN,
            predict : BOOLEAN, watchdog : BOOLEAN]

\* topic names a delivered record can carry besides the subscribed ones:
\* no unit suffix, no sensor component, a non-numeric horizon, a sensor and
\* a horizon that no configuration declares, another unit letter
ForeignLabels(u) ==
    { features \o us \o T \o us \o <<"2", "4">>,
      <<"2">> \o u,
      features \o us \o T \o us \o <<"x">> \o u,
      features \o us \o <<"z">> \o us \o <<"2">> \o u,
      features \o us \o T \o us \o <<"9">> \o u,
      features \o us \o T \o us \o <<"2", "x">> }

Range(f) == {f[i] : i \in DOMAIN f}

\* msg.value: the text of a dict literal with some of the two keys and an
\* empty or non-empty feature vector, or text that is no Python expression.
\* Payloads are data: text that eval() would run as code with effects of its
\* own (a call that exits, or that changes main()'s variables) is outside
\* the inputs of this model.
\* the values a measurement or a prediction takes
Values == {0, 1}

Payloads ==
    { [form |-> "dict", keys |-> {"timestamp", "ftr_vector"},
       timestamp |-> m + 1, ftr_vector |-> <<m, 7>>] : m \in Values }
    \cup
    { [form |-> "dict", keys |-> {"timestamp"}, timestamp |-> 1, ftr_vector |-> <<>>],
      [form |-> "dict", keys |-> {"timestamp", "ftr_vector"}, timestamp |-> 1,
       ftr_vector |-> <<>>],
      [form |-> "text", keys |-> {}, timestamp |-> 0, ftr_vector |-> <<>>] }

\* eval(msg.value) raises, or one of rec['timestamp'], rec['ftr_vector'],
\* ftr_vector[0] raises
DecodeFails(value) ==
    \/ value.form # "dict"
    \/ "timestamp" \notin value.keys
    \/ "ftr_vector" \notin value.keys
    \/ Len(value.ftr_vector) = 0

NoMsg == [topic |-> <<>>, value |-> [form |-> "none", keys |-> {}, timestamp |-> 0,
                                      ftr_vector |-> <<>>]]

\* ------------------------------------------------------------------------
\* State
\* ------------------------------------------------------------------------
VARIABLES
    conf,        \* the configuration file read at startup
    args,        \* the parsed command line
    pc,          \* where main() is
    idx,         \* position of the running phase's loop over (sensor, horizon)
    models,      \* the dict sensor -> horizon -> PredictiveModel
    files,       \* the models directory: file name -> saved model state
    log,         \* number of tracebacks / error lines printed, by kind
    crash,       \* the statement whose exception ended main(), or "none"
    topics,      \* the topics the consumer is subscribed to
    nrecv,       \* number of records the consumer has delivered
    msg,         \* the record being handled
    output,      \* the output record of the record being handled
    future,      \* the producer future of the record being handled
    trace,       \* the calls made for the record being handled, in order
    key,         \* the (sensor, horizon) the last record's topic resolved to
    outcome,     \* how the handling of the last record ended
    inflight,    \* topic and value handed to producer.send, until the wait ends
    nsent,       \* number of producer.send calls that returned a future
    evals,       \* per model: the evaluate calls made and their summed error,
                 \* on top of what the model held when the loop began
    fitAttempts, \* per model: the fit calls made
    opened       \* per phase (fit, save, load) and model: the file name the
                 \* phase passed to the model's fit, save or load

vars == <<conf, args, pc, idx, models, files, log, crash, topics, nrecv, msg,
          output, future, trace, key, outcome, inflight, nsent, evals,
          fitAttempts, opened>>

sensors == conf.sensors
horizons == conf.prediction_horizons
time_offset == conf.time_offset

\* "sensors, horizons = None, None" and no key of conf that sets them
sensors_is_None == "sensors" \notin conf.keys
horizons_is_None == "prediction_horizons" \notin conf.keys

NPairs == Len(sensors) * Len(horizons)

\* the pair the nested loops "for sensor in sensors: for horizon in horizons"
\* visit at position i
SensorAt(i) == sensors[((i - 1) \div Len(horizons)) + 1]
HorizonAt(i) == horizons[((i - 1) % Len(horizons)) + 1]

Declared == {<<SensorAt(i), HorizonAt(i)>> : i \in 1..NPairs}

Put(f, k, v) == [x \in (DOMAIN f) \cup {k} |-> IF x = k THEN v ELSE f[x]]

\* one more evaluate call, with its error, on the books of model k
Tally(f, k, e) ==
    Put(f, k, [n |-> (IF k \in DOMAIN f THEN f[k].n ELSE 0) + 1,
               err |-> (IF k \in DOMAIN f THEN f[k].err ELSE 0) + e])

\* ------------------------------------------------------------------------
\* PredictiveModel, from the specification's section 4.1
\* ------------------------------------------------------------------------
PredictiveModel(sensor, horizon) ==
    [sensor |-> sensor, horizon |-> horizon, fitted |-> FALSE,
     evaluated |-> 0, predictability |-> 0]

AbsDiff(a, b) == IF a >= b THEN a - b ELSE b - a

\* evaluate(output, measurement): the model after the call
EvaluateModel(model, out, measurement) ==
    [model EXCEPT !.evaluated = @ + 1,
                  !.predictability = @ + AbsDiff(out.value, measurement)]

\* evaluate(output, measurement): the record it returns
EvaluateOutput(model, out, measurement) ==
    [stampm |-> out.stampm, value |-> out.value, sensor_id |-> out.sensor_id,
     horizon |-> out.horizon, predictability |-> out.predictability,
     error |-> AbsDiff(out.value, measurement)]

NoOutput == [stampm |-> 0, value |-> 0, sensor_id |-> <<>>, horizon |-> 0,
             predictability |-> 0, error |-> 0]

NoSent == [topic |-> <<>>, value |-> NoOutput]

\* the models directory as an earlier run with --save left it: one file per
\* declared pair, holding a fitted model that was evaluated once
OldFiles ==
    [name \in {get_model_file_name(SensorAt(i), HorizonAt(i), DefaultTimePeriod) :
                  i \in 1..NPairs} |->
        LET i == CHOOSE j \in 1..NPairs :
                     name = get_model_file_name(SensorAt(j), HorizonAt(j),
                                                DefaultTimePeriod)
        IN  [sensor |-> SensorAt(i), horizon |-> HorizonAt(i), fitted |-> TRUE,
             evaluated |-> 1, predictability |-> 1]]

\* ------------------------------------------------------------------------
\* main(): the phases
\* ------------------------------------------------------------------------
\* the exception classes that fit and the loop body can raise; all derive
\* from Exception
ExceptionClasses == {"SyntaxError", "KeyError", "IndexError", "ValueError",
                     "DataError", "ModelError", "KafkaError",
                     "KafkaTimeoutError"}

\* the fit call with no handler around it
CaughtAtFit_NoHandler(e) == FALSE

\* "except Exception" around the fit call
CaughtAtFit(e) == e \in ExceptionClasses

\* "except Exception as e" around future.get: 'Producer error'
CaughtAtProducer(e) == e \in ExceptionClasses

\* a handler that names the lookup and parsing errors only
CaughtAtConsumer_Narrow(e) == e \in {"KeyError", "ValueError"}

\* "except Exception as e" around the loop body: 'Consumer error'
CaughtAtConsumer(e) == e \in ExceptionClasses

AfterWatchdog == IF args.predict THEN "subscribe" ELSE "done"
AfterLoad == IF args.watchdog THEN "watchdog" ELSE AfterWatchdog
AfterSave == IF args.load THEN "load" ELSE AfterLoad
\* live predictions started right after the fit phase, before save and load
AfterFit_PredictFirst == IF args.predict THEN "subscribe" ELSE AfterSave
AfterFit == IF args.save THEN "save" ELSE AfterSave
AfterInit == IF args.fit THEN "fit" ELSE AfterFit

Init ==
    /\ conf \in Configs
    /\ args \in ArgSets
    /\ pc = "init"
    /\ idx = 1
    /\ models = <<>>
    /\ files \in {<<>>, OldFiles}
    /\ log = [consumer |-> 0, producer |-> 0, fit |-> 0]
    /\ crash = "none"
    /\ topics = <<>>
    /\ nrecv = 0
    /\ msg = NoMsg
    /\ output = NoOutput
    /\ future = "none"
    /\ trace = <<>>
    /\ key = <<>>
    /\ outcome = "none"
    /\ inflight = NoSent
    /\ nsent = 0
    /\ evals = [k \in Declared |-> [n |-> 0, err |-> 0]]
    /\ fitAttempts = [k \in Declared |-> 0]
    /\ opened = [fit |-> <<>>, save |-> <<>>, load |-> <<>>]

\* the reset models[sensor] = {} done inside the horizon loop
Construct_ResetEach(ms, sensor, horizon, first) ==
    [Put(ms, sensor, <<>>) EXCEPT
        ![sensor] = Put(@, horizon, PredictiveModel(sensor, horizon))]

\* models[sensor] = {} before a sensor's first horizon, then
\* models[sensor][horizon] = PredictiveModel(sensor, horizon, **kwargs)
Construct(ms, sensor, horizon, first) ==
    LET base == IF first THEN Put(ms, sensor, <<>>) ELSE ms
    IN  [base EXCEPT ![sensor] = Put(@, horizon, PredictiveModel(sensor, horizon))]

\* one pass of the loops of the init phase.  "for sensor in sensors" and
\* "for horizon in horizons" raise TypeError for None and run zero times
\* for an empty list
InitModel ==
    /\ pc = "init"
    /\ IF sensors_is_None
         THEN /\ models' = models
              /\ pc' = "crashed" /\ crash' = "init" /\ idx' = idx
       ELSE IF Len(sensors) = 0
         THEN /\ models' = models
              /\ pc' = AfterInit /\ crash' = crash /\ idx' = 1
       ELSE IF horizons_is_None
         THEN /\ models' = Put(models, sensors[1], <<>>)
              /\ pc' = "crashed" /\ crash' = "init" /\ idx' = idx
       ELSE IF Len(horizons) = 0
         THEN /\ models' = [s \in Range(sensors) |-> <<>>]
              /\ pc' = AfterInit /\ crash' = crash /\ idx' = 1
       ELSE /\ models' = Construct(models, SensorAt(idx), HorizonAt(idx),
                                   (idx - 1) % Len(horizons) = 0)
            /\ crash' = crash
            /\ IF idx = NPairs
                 THEN pc' = AfterInit /\ idx' = 1
                 ELSE pc' = pc /\ idx' = idx + 1
    /\ UNCHANGED <<conf, args, opened, files, log, topics, nrecv, msg, output,
                   future, trace, key, outcome, inflight, nsent, evals,
                   fitAttempts>>

\* the loops of the fit, save and load phases when there is no pair to visit
EmptyPhase ==
    /\ pc \in {"fit", "save", "load"}
    /\ NPairs = 0
    /\ pc' = (CASE pc = "fit" -> AfterFit
               [] pc = "save" -> AfterSave
               [] pc = "load" -> AfterLoad)
    /\ UNCHANGED <<conf, args, opened, idx, models, files, log, crash, topics, nrecv,
                   msg, output, future, trace, key, outcome, inflight, nsent,
                   evals, fitAttempts>>

\* one pass of the learning loop: fit raises or returns a score; an
\* exception is printed and the loop goes on
FitModel ==
    /\ pc = "fit"
    /\ NPairs > 0
    /\ \E ok \in BOOLEAN :
        LET s == SensorAt(idx)
            h == HorizonAt(idx)
            data == get_data_file_name(s, h, DefaultTimePeriod)
        IN  /\ fitAttempts' = [fitAttempts EXCEPT ![<<s, h>>] = @ + 1]
            /\ opened' = [opened EXCEPT !.fit = Put(@, <<s, h>>, data)]
            /\ models' = IF ok THEN [models EXCEPT ![s][h].fitted = TRUE]
                          ELSE models
            /\ IF ok \/ CaughtAtFit("DataError")
                 THEN /\ log' = IF ok THEN log ELSE [log EXCEPT !.fit = @ + 1]
                      /\ crash' = crash
                      /\ IF idx = NPairs
                           THEN pc' = AfterFit /\ idx' = 1
                           ELSE pc' = pc /\ idx' = idx + 1
                 ELSE /\ log' = log
                      /\ crash' = "fit"
                      /\ pc' = "crashed"
                      /\ idx' = idx
    /\ UNCHANGED <<conf, args, files, topics, nrecv, msg, output, future,
                   trace, key, outcome, inflight, nsent, evals>>

\* one pass of the saving loop: model.save(filename) is not inside any try
SaveModel ==
    /\ pc = "save"
    /\ NPairs > 0
    /\ \E ok \in BOOLEAN :
        LET s == SensorAt(idx)
            h == HorizonAt(idx)
            filename == get_model_file_name(s, h, DefaultTimePeriod)
        IN  /\ opened' = [opened EXCEPT !.save = Put(@, <<s, h>>, filename)]
            /\ IF ok
                 THEN /\ files' = Put(files, filename, models[s][h])
                      /\ crash' = crash
                      /\ IF idx = NPairs
                           THEN pc' = AfterSave /\ idx' = 1
                           ELSE pc' = pc /\ idx' = idx + 1
                 ELSE /\ files' = files
                      /\ crash' = "save"
                      /\ pc' = "crashed"
                      /\ idx' = idx
    /\ UNCHANGED <<conf, args, models, log, topics, nrecv, msg, output, future,
                   trace, key, outcome, inflight, nsent, evals,
                   fitAttempts>>

\* one pass of the loading loop: model.load(filename) is not inside any try;
\* it raises when the file is missing and may raise when it is there
LoadModel ==
    /\ pc = "load"
    /\ NPairs > 0
    /\ \E ok \in BOOLEAN :
        LET s == SensorAt(idx)
            h == HorizonAt(idx)
            filename == get_model_file_name(s, h, DefaultTimePeriod)
        IN  /\ opened' = [opened EXCEPT !.load = Put(@, <<s, h>>, filename)]
            /\ IF ok /\ filename \in DOMAIN files
                 THEN /\ models' = [models EXCEPT ![s][h] =
                                       [files[filename] EXCEPT !.sensor = s,
                                                               !.horizon = h]]
                      /\ crash' = crash
                      /\ IF idx = NPairs
                           THEN pc' = AfterLoad /\ idx' = 1
                           ELSE pc' = pc /\ idx' = idx + 1
                 ELSE /\ models' = models
                      /\ crash' = "load"
                      /\ pc' = "crashed"
                      /\ idx' = idx
    /\ UNCHANGED <<conf, args, files, log, topics, nrecv, msg, output, future,
                   trace, key, outcome, inflight, nsent, evals,
                   fitAttempts>>

\* "watchdog_path" in conf.keys: conf.keys is a bound method, the test
\* raises TypeError and nothing catches it
Watchdog ==
    /\ pc = "watchdog"
    /\ pc' = "crashed"
    /\ crash' = "watchdog"
    /\ UNCHANGED <<conf, args, opened, idx, models, files, log, topics, nrecv, msg,
                   output, future, trace, key, outcome, inflight, nsent,
                   evals, fitAttempts>>

\* KafkaConsumer(...), consumer.subscribe(topics), KafkaProducer(...): with
\* no broker reachable the constructors raise and nothing catches it
Subscribe ==
    /\ pc = "subscribe"
    /\ \E ok \in BOOLEAN :
        IF ok
          THEN /\ topics' = get_input_data_topics(sensors, horizons, time_offset)
               /\ pc' = "poll"
               /\ crash' = crash
          ELSE /\ topics' = topics
               /\ pc' = "crashed"
               /\ crash' = "kafka"
    /\ evals' = [k \in Declared |->
                    [n |-> models[k[1]][k[2]].evaluated,
                     err |-> models[k[1]][k[2]].predictability]]
    /\ UNCHANGED <<conf, args, opened, idx, models, files, log, nrecv, msg, output,
                   future, trace, key, outcome, inflight, nsent, fitAttempts>>

\* ------------------------------------------------------------------------
\* main(): the ingestion loop
\* ------------------------------------------------------------------------
\* the exception the decoding statements raise
DecodeError(value) ==
    IF value.form # "dict" THEN "SyntaxError"
    ELSE IF "timestamp" \notin value.keys \/ "ftr_vector" \notin value.keys
           THEN "KeyError"
           ELSE "IndexError"

\* a registry of defaultdicts: a missing key gets a fresh model
Lookup_Default(ms, sensor, horizon) ==
    [found |-> TRUE,
     models |->
        IF sensor \in DOMAIN ms /\ horizon \in DOMAIN ms[sensor] THEN ms
        ELSE IF sensor \in DOMAIN ms
          THEN [ms EXCEPT ![sensor] = Put(@, horizon, PredictiveModel(sensor, horizon))]
          ELSE Put(ms, sensor, Put(<<>>, horizon, PredictiveModel(sensor, horizon)))]

\* models[sensor][horizon] on plain dicts: KeyError for a missing key, and
\* the dict is left as it was
Lookup(ms, sensor, horizon) ==
    [found |-> sensor \in DOMAIN ms /\ horizon \in DOMAIN ms[sensor],
     models |-> ms]

\* the output record built after predict
OutputRecord(timestamp, value, sensor, horizon, model) ==
    [stampm |-> timestamp, value |-> value, sensor_id |-> sensor,
     horizon |-> horizon, predictability |-> model.predictability]

\* the timeout of the acknowledgment wait, in seconds
AckTimeout == 10

\* future.get() called without the timeout
FutureGet_NoTimeout(fut, timeout) ==
    IF fut = "acked" THEN "ok"
    ELSE IF fut = "failed" THEN "KafkaError"
    ELSE "block"

\* future.get(timeout): returns, raises, or (with no timeout) blocks while the
\* broker does not answer
FutureGet(fut, timeout) ==
    IF fut = "acked" THEN "ok"
    ELSE IF fut = "failed" THEN "KafkaError"
    ELSE IF timeout > 0 THEN "KafkaTimeoutError" ELSE "block"

NoResult(ms) ==
    [exc |-> "none", stage |-> "none", trace |-> <<>>, models |-> ms,
     output |-> NoOutput, sent |-> NoSent, key |-> <<>>]

\* The first part of the try, from eval(msg.value) to the registry lookup:
\* the exception it raises ("none" when it finds the model), the calls it
\* made and the key it resolved.
FindModel(ms, m, unit) ==
    IF DecodeFails(m.value)
      THEN [NoResult(ms) EXCEPT !.exc = DecodeError(m.value),
                                !.stage = "decode_error",
                                !.trace = <<"eval">>]
    ELSE
      LET resolved == Resolve(m.topic, unit)
          horizon == resolved.horizon
          sensor == resolved.sensor
          got == Lookup(ms, sensor, horizon)
      IN
      IF resolved.exc # "none"
        THEN [NoResult(ms) EXCEPT !.exc = resolved.exc,
                                  !.stage = "routing_error",
                                  !.trace = <<"eval", "resolve">>]
      ELSE [NoResult(ms) EXCEPT
              !.exc = IF got.found THEN "none" ELSE "KeyError",
              !.stage = IF got.found THEN "found" ELSE "unknown_key",
              !.trace = <<"eval", "resolve", "lookup">>,
              !.models = got.models,
              !.key = <<sensor, horizon>>]

\* a predictability score kept in one place for all models: evaluate adds
\* the error of a prediction to every model's score
PredictAndSend_SharedScore(found, m, predOk, p, sendOk) ==
    LET sensor == found.key[1]
        horizon == found.key[2]
    IN
    IF ~predOk
      THEN [found EXCEPT !.exc = "ModelError", !.stage = "predict_error",
                         !.trace = Append(@, "predict")]
    ELSE
      LET model == found.models[sensor][horizon]
          measurement == m.value.ftr_vector[1]
          out == OutputRecord(m.value.timestamp, p, sensor, horizon, model)
          out2 == EvaluateOutput(model, out, measurement)
      IN  [exc |-> IF sendOk THEN "none" ELSE "KafkaTimeoutError",
           stage |-> IF sendOk THEN "sent" ELSE "send_error",
           trace |-> found.trace \o <<"predict", "evaluate", "send">>,
           models |-> [s \in DOMAIN found.models |->
                         [h \in DOMAIN found.models[s] |->
                            IF s = sensor /\ h = horizon
                              THEN EvaluateModel(model, out, measurement)
                              ELSE [found.models[s][h] EXCEPT
                                      !.predictability = @ + out2.error]]],
           output |-> out2,
           sent |-> IF sendOk THEN [topic |-> output_topic(sensor), value |-> out2]
                    ELSE NoSent,
           key |-> found.key]

\* the prediction published as soon as predict returns, and evaluated after
PredictAndSend_PublishFirst(found, m, predOk, p, sendOk) ==
    LET sensor == found.key[1]
        horizon == found.key[2]
    IN
    IF ~predOk
      THEN [found EXCEPT !.exc = "ModelError", !.stage = "predict_error",
                         !.trace = Append(@, "predict")]
    ELSE
      LET model == found.models[sensor][horizon]
          measurement == m.value.ftr_vector[1]
          out == OutputRecord(m.value.timestamp, p, sensor, horizon, model)
          out2 == EvaluateOutput(model, out, measurement)
      IN  [exc |-> IF sendOk THEN "none" ELSE "KafkaTimeoutError",
           stage |-> IF sendOk THEN "sent" ELSE "send_error",
           trace |-> found.trace \o <<"predict", "send", "evaluate">>,
           models |-> [found.models EXCEPT ![sensor][horizon] =
                          EvaluateModel(model, out, measurement)],
           output |-> out2,
           sent |-> IF sendOk
                      THEN [topic |-> output_topic(sensor),
                            value |-> [out2 EXCEPT !.error = 0]]
                      ELSE NoSent,
           key |-> found.key]

\* a predict that counts the attempt in the model's score before it fails
PredictAndSend_ScoreOnFailure(found, m, predOk, p, sendOk) ==
    LET sensor == found.key[1]
        horizon == found.key[2]
    IN
    IF ~predOk
      THEN [found EXCEPT !.exc = "ModelError", !.stage = "predict_error",
                         !.trace = Append(@, "predict"),
                         !.models[sensor][horizon].predictability = @ + 1]
    ELSE
      LET model == found.models[sensor][horizon]
          measurement == m.value.ftr_vector[1]
          out == OutputRecord(m.value.timestamp, p, sensor, horizon, model)
          out2 == EvaluateOutput(model, out, measurement)
      IN  [exc |-> IF sendOk THEN "none" ELSE "KafkaTimeoutError",
           stage |-> IF sendOk THEN "sent" ELSE "send_error",
           trace |-> found.trace \o <<"predict", "evaluate", "send">>,
           models |-> [found.models EXCEPT ![sensor][horizon] =
                          EvaluateModel(model, out, measurement)],
           output |-> out2,
           sent |-> IF sendOk THEN [topic |-> output_topic(sensor), value |-> out2]
                    ELSE NoSent,
           key |-> found.key]

\* The rest of the try, from model.predict to producer.send, for the model
\* found under key: the exception it raises ("none" when it reaches
\* future.get), the calls made and what they left behind.  predOk, p: whether
\* predict returns, and the value; sendOk: whether producer.send returns a
\* future.
PredictAndSend(found, m, predOk, p, sendOk) ==
    LET sensor == found.key[1]
        horizon == found.key[2]
    IN
    IF ~predOk
      THEN [found EXCEPT !.exc = "ModelError", !.stage = "predict_error",
                         !.trace = Append(@, "predict")]
    ELSE
      LET model == found.models[sensor][horizon]
          measurement == m.value.ftr_vector[1]
          out == OutputRecord(m.value.timestamp, p, sensor, horizon, model)
          out2 == EvaluateOutput(model, out, measurement)
      IN  [exc |-> IF sendOk THEN "none" ELSE "KafkaTimeoutError",
           stage |-> IF sendOk THEN "sent" ELSE "send_error",
           trace |-> found.trace \o <<"predict", "evaluate", "send">>,
           models |-> [found.models EXCEPT ![sensor][horizon] =
                          EvaluateModel(model, out, measurement)],
           output |-> out2,
           sent |-> IF sendOk THEN [topic |-> output_topic(sensor), value |-> out2]
                    ELSE NoSent,
           key |-> found.key]

\* what predict, producer.send and the broker do for one record: predict
\* raises, or returns p and send raises, or send returns a future that
\* is acknowledged, fails or stays unanswered
Environments ==
    {<<FALSE, 0, FALSE, "none">>}
    \cup {<<TRUE, p, FALSE, "none">> : p \in Values}
    \cup {<<TRUE, p, TRUE, fut>> : p \in Values, fut \in {"acked", "failed", "pending"}}

\* "for msg in consumer": the next record arrives, and the loop body runs up
\* to producer.send and the print that follows it
HandleRecord ==
    /\ pc = "poll"
    /\ nrecv < MaxRecords
    /\ nrecv' = nrecv + 1
    /\ \E topic \in Range(topics) \cup ForeignLabels(time_offset), value \in Payloads :
        \* (found and r are bound by \E so that each is computed once)
        \E found \in {FindModel(models, [topic |-> topic, value |-> value],
                                 time_offset)} :
        \E env \in IF found.exc = "none" THEN Environments
                                         ELSE {<<FALSE, 0, FALSE, "none">>} :
        \E r \in {IF found.exc = "none"
                    THEN PredictAndSend(found, [topic |-> topic, value |-> value],
                                        env[1], env[2], env[3])
                    ELSE found} :
            LET m == [topic |-> topic, value |-> value]
                evaluated == Len(r.trace) >= 5
            IN  /\ models' = r.models
                /\ trace' = r.trace
                /\ key' = r.key
                /\ evals' = IF evaluated THEN Tally(evals, r.key, r.output.error)
                                          ELSE evals
                /\ IF r.exc = "none"
                     THEN /\ pc' = "await"
                          /\ msg' = m
                          /\ output' = r.output
                          /\ future' = env[4]
                          /\ inflight' = r.sent
                          /\ nsent' = nsent + 1
                          /\ UNCHANGED <<log, crash, outcome>>
                     ELSE /\ msg' = NoMsg
                          /\ output' = NoOutput
                          /\ future' = "none"
                          /\ outcome' = r.stage
                          /\ UNCHANGED <<inflight, nsent>>
                          /\ IF CaughtAtConsumer(r.exc)
                               THEN /\ log' = [log EXCEPT !.consumer = @ + 1]
                                    /\ pc' = "poll"
                                    /\ crash' = crash
                               ELSE /\ log' = log
                                    /\ pc' = "crashed"
                                    /\ crash' = "consumer"
    /\ UNCHANGED <<conf, args, opened, idx, files, topics, fitAttempts>>

\* a producer error that takes the evaluation back
AwaitAck_Rollback ==
    /\ pc = "await"
    /\ FutureGet(future, AckTimeout) # "block"
    /\ LET e == FutureGet(future, AckTimeout)
       IN  IF e = "ok"
             THEN /\ outcome' = "acked"
                  /\ models' = models
                  /\ log' = log
             ELSE /\ outcome' = IF e = "KafkaTimeoutError" THEN "publish_timeout"
                                                             ELSE "publish_failed"
                  /\ models' = [models EXCEPT
                        ![key[1]][key[2]].evaluated = @ - 1,
                        ![key[1]][key[2]].predictability = @ - output.error]
                  /\ log' = [log EXCEPT !.producer = @ + 1]
    /\ pc' = "poll"
    /\ msg' = NoMsg
    /\ output' = NoOutput
    /\ future' = "none"
    /\ inflight' = NoSent
    /\ trace' = Append(trace, "get")
    /\ UNCHANGED <<conf, args, opened, idx, files, crash, topics, nrecv, key, nsent,
                   evals, fitAttempts>>

\* a producer error that sends the record again and waits once more
AwaitAck_Retry ==
    /\ pc = "await"
    /\ FutureGet(future, AckTimeout) # "block"
    /\ LET e == FutureGet(future, AckTimeout)
       IN  IF e = "ok"
             THEN /\ outcome' = "acked"
                  /\ pc' = "poll"
                  /\ msg' = NoMsg
                  /\ output' = NoOutput
                  /\ future' = "none"
                  /\ inflight' = NoSent
                  /\ trace' = Append(trace, "get")
                  /\ UNCHANGED <<log, nsent>>
             ELSE /\ outcome' = IF e = "KafkaTimeoutError" THEN "publish_timeout"
                                                             ELSE "publish_failed"
                  /\ pc' = "await"
                  /\ future' = "acked"
                  /\ nsent' = nsent + 1
                  /\ log' = [log EXCEPT !.producer = @ + 1]
                  /\ trace' = trace \o <<"get", "send">>
                  /\ UNCHANGED <<msg, output, inflight>>
    /\ UNCHANGED <<conf, args, opened, idx, models, files, crash, topics, nrecv, key,
                   evals, fitAttempts>>

\* future.get(timeout=10) inside its own try
AwaitAck ==
    /\ pc = "await"
    /\ FutureGet(future, AckTimeout) # "block"
    /\ LET e == FutureGet(future, AckTimeout)
       IN  IF e = "ok"
             THEN /\ outcome' = "acked"
                  /\ pc' = "poll"
                  /\ UNCHANGED <<log, crash>>
             ELSE /\ outcome' = IF e = "KafkaTimeoutError" THEN "publish_timeout"
                                                             ELSE "publish_failed"
                  /\ IF CaughtAtProducer(e)
                       THEN /\ log' = [log EXCEPT !.producer = @ + 1]
                            /\ pc' = "poll"
                            /\ crash' = crash
                       ELSE IF CaughtAtConsumer(e)
                              THEN /\ log' = [log EXCEPT !.consumer = @ + 1]
                                   /\ pc' = "poll"
                                   /\ crash' = crash
                              ELSE /\ log' = log
                                   /\ pc' = "crashed"
                                   /\ crash' = "producer"
    /\ msg' = NoMsg
    /\ output' = NoOutput
    /\ future' = "none"
    /\ inflight' = NoSent
    /\ trace' = Append(trace, "get")
    /\ UNCHANGED <<conf, args, opened, idx, models, files, topics, nrecv, key, nsent,
                   evals, fitAttempts>>

Next ==
    \/ InitModel
    \/ EmptyPhase
    \/ FitModel
    \/ SaveModel
    \/ LoadModel
    \/ Watchdog
    \/ Subscribe
    \/ HandleRecord
    \/ AwaitAck

Spec == Init /\ [][Next]_vars

\* ------------------------------------------------------------------------
\* Properties
\* ------------------------------------------------------------------------
InLoop == pc \in {"poll", "await"}

EarlyErrors == {"decode_error", "routing_error", "unknown_key"}

\* C1: a record whose decoding, key resolution or registry lookup fails is
\* caught and logged and does not stop the loop: once records arrive the loop
\* is never left, a failed record leaves the loop waiting for the next one
\* with nothing in flight, and every delivered record is accounted for by
\* exactly one logged consumer error or one emitted prediction.
C1_FaultIsolation ==
    nrecv > 0 =>
        /\ InLoop
        /\ nrecv = log.consumer + nsent
        /\ (pc = "poll" /\ outcome \in EarlyErrors) =>
               (log.consumer > 0 /\ inflight = NoSent /\ msg = NoMsg)

\* a malformed payload followed by a well-formed record: one logged error,
\* one emitted prediction
C1_Witness ==
    /\ pc = "await" /\ outcome = "decode_error"
    /\ nrecv = 2 /\ log.consumer = 1 /\ nsent = 1
    /\ inflight # NoSent

\* C2: after initialization the registry's key set is exactly the set of
\* declared (sensor, horizon) pairs, and each key holds the Model constructed
\* with that sensor and horizon; no entry is inserted or removed.
C2_RegistryShape ==
    pc # "init" =>
        /\ DOMAIN models = Range(sensors)
        /\ \A s \in DOMAIN models :
              /\ DOMAIN models[s] = Range(horizons)
              /\ \A h \in DOMAIN models[s] :
                    models[s][h].sensor = s /\ models[s][h].horizon = h

\* the registry after fit, save and load and after a record that failed
C2_Witness ==
    /\ args.fit /\ args.save /\ args.load
    /\ pc = "poll" /\ outcome = "unknown_key" /\ nrecv = MaxRecords
    /\ Len(horizons) > 1

\* C3: a lookup for a pair that was not declared fails with an error; it
\* creates no model, and the record causes no predict, evaluate or publish.
C3_UnknownKeyFails ==
    (InLoop /\ key # <<>> /\ key \notin Declared) =>
        /\ pc = "poll"
        /\ outcome = "unknown_key"
        /\ trace = <<"eval", "resolve", "lookup">>
        /\ log.consumer > 0
        /\ inflight = NoSent
        /\ \A s \in DOMAIN models : \A h \in DOMAIN models[s] : <<s, h>> \in Declared

\* a well-formed topic of an undeclared horizon was looked up
C3_Witness ==
    /\ pc = "poll" /\ outcome = "unknown_key"
    /\ key = <<T, 9>>
    /\ nsent = 0 /\ log.consumer = nrecv

\* C4 (as claimed): resolving each topic get_input_data_topics formatted for
\* (s, h, u) with the unit u gives back (s, h).
C4_RoundTrip ==
    InLoop =>
        \A i \in DOMAIN topics :
            Resolve(topics[i], time_offset) =
                [exc |-> "none", sensor |-> SensorAt(i), horizon |-> HorizonAt(i)]

\* the shape <sensor>_<horizon><unit>: at least two "_"-separated components,
\* the last one digits followed by the unit, the one before it not empty
HasShape(label, unit) ==
    LET parts == Split(label, "_")
        last == parts[Len(parts)]
    IN  /\ Len(parts) >= 2
        /\ Len(parts[Len(parts) - 1]) > 0
        /\ Len(last) > Len(unit)
        /\ SubSeq(last, Len(last) - Len(unit) + 1, Len(last)) = unit
        /\ AllDigits(SubSeq(last, 1, Len(last) - Len(unit)))

\* C5 (as claimed): the resolver fails for every label that does not have
\* the shape <sensor>_<horizon><unit>, and the record is dropped: a record
\* that gets as far as the publish came on a label of that shape.
C5_RejectsMalformed ==
    pc = "await" => HasShape(msg.topic, time_offset)

\* C6 (as claimed): a well-formed record with timestamp T on the topic
\* features_<s>_<h><u> of a declared (s, h), whose model predicts p, is
\* published on predictions_<s> with timestamp T, value p, sensor_id s,
\* horizon h and a predictability field.
C6_Dispatch ==
    pc = "await" =>
        \A i \in 1..NPairs :
            msg.topic = InputTopic(SensorAt(i), HorizonAt(i), time_offset) =>
                /\ inflight.topic = output_topic(SensorAt(i))
                /\ inflight.value.stampm = msg.value.timestamp
                /\ inflight.value.sensor_id = SensorAt(i)
                /\ inflight.value.horizon = HorizonAt(i)
                /\ "predictability" \in DOMAIN inflight.value

\* C7: a failed publish does not take back what evaluate did: each model's
\* predictability state reflects every evaluate call made, whether or not the
\* publish that followed succeeded.
C7_NoRollback ==
    InLoop =>
        \A k \in Declared :
            /\ models[k[1]][k[2]].evaluated = evals[k].n
            /\ models[k[1]][k[2]].predictability = evals[k].err

\* a publish failed after an evaluation with a non-zero error
C7_Witness ==
    /\ pc = "poll" /\ outcome = "publish_failed" /\ log.producer > 0
    /\ key \in Declared
    /\ models[key[1]][key[2]].evaluated > 0
    /\ models[key[1]][key[2]].predictability > 0

\* C8: the acknowledgment wait is bounded and its failure is not fatal: in
\* the wait, the step that ends it is always possible, every step leads back
\* to waiting for the next record, and a failure or timeout leaves a logged
\* producer error behind.
C8_BoundedAck ==
    /\ pc = "await" =>
          /\ ENABLED AwaitAck
          /\ ~ENABLED (Next /\ pc' # "poll")
    /\ outcome \in {"publish_failed", "publish_timeout"} =>
          (InLoop /\ log.producer > 0)
    /\ nsent > 0 => InLoop

\* the next record is handled after an acknowledgment that timed out
C8_Witness ==
    /\ pc = "await" /\ outcome = "publish_timeout"
    /\ log.producer = 1 /\ nrecv = 2

\* C9: a fit failure is logged and does not abort the fit phase: fit is
\* attempted exactly once for every declared pair, whichever models fail.
C9_FitAll ==
    args.fit =>
        /\ crash # "fit"
        /\ \A i \in 1..NPairs :
              fitAttempts[<<SensorAt(i), HorizonAt(i)>>] =
                  IF pc = "init" \/ (pc = "fit" /\ i >= idx) THEN 0 ELSE 1
        /\ (pc \notin {"init", "fit"} /\ (~args.load \/ pc = "save" \/ crash = "save")) =>
              log.fit = Cardinality({k \in Declared : ~models[k[1]][k[2]].fitted})

\* the first model failed to fit and the last one was fitted
C9_Witness ==
    /\ args.fit /\ pc \notin {"init", "fit", "crashed"}
    /\ log.fit = 1
    /\ ~models[SensorAt(1)][HorizonAt(1)].fitted
    /\ models[SensorAt(NPairs)][HorizonAt(NPairs)].fitted

\* C10 (as claimed): an error of one model in the save or load phase is
\* caught at that model's scope: it never ends main().
C10_PersistenceIsolated ==
    crash \notin {"save", "load"}

\* C11 (as claimed): when the configured sensors or prediction_horizons is
\* missing or empty, initialization ends main() with a configuration error:
\* no Model is constructed and no later phase is entered.
C11_FailFast ==
    (sensors_is_None \/ horizons_is_None \/ Len(sensors) = 0 \/ Len(horizons) = 0) =>
        /\ pc \in {"init", "crashed"}
        /\ pc = "crashed" => crash = "init"
        /\ \A s \in DOMAIN models : DOMAIN models[s] = {}

\* C12: handling a record routed to (s, h) changes no model but the one
\* registered under (s, h): every other model, its predictability included,
\* is after the record what it was before, and the model under (s, h) gets at
\* most the one evaluation of that record; so a model's predictability is
\* made of the records routed to it alone.
C12_Isolation ==
    [][pc = "poll" =>
          \A k \in Declared :
              IF k = key'
                THEN /\ models'[k[1]][k[2]].evaluated - models[k[1]][k[2]].evaluated
                            \in {0, 1}
                     /\ models'[k[1]][k[2]].evaluated = models[k[1]][k[2]].evaluated
                            => models'[k[1]][k[2]] = models[k[1]][k[2]]
                ELSE models'[k[1]][k[2]] = models[k[1]][k[2]]]_vars

\* two records for two different models were evaluated, one with an error
\* and one without
C12_Witness ==
    /\ pc = "poll" /\ nrecv = 2 /\ nsent = 2 /\ ~args.load
    /\ Len(sensors) = 2
    /\ models[SensorAt(1)][HorizonAt(1)].evaluated = 1
    /\ models[SensorAt(2)][HorizonAt(2)].evaluated = 1
    /\ models[SensorAt(1)][HorizonAt(1)].predictability = 1
    /\ models[SensorAt(2)][HorizonAt(2)].predictability = 0

\* the number of times call c occurs in the calls made for a record
Count(calls, c) == Cardinality({i \in DOMAIN calls : calls[i] = c})

\* C13: one record at a time, in arrival order: outside the acknowledgment
\* wait no record is held and nothing is in flight, during the wait no next
\* record can be taken, and a record causes at most one evaluate call and at
\* most one publish attempt, so there are never more publishes than records.
C13_SingleWorker ==
    /\ pc = "poll" => (msg = NoMsg /\ inflight = NoSent /\ future = "none")
    /\ pc = "await" =>
          /\ msg # NoMsg /\ inflight # NoSent
          /\ ~ENABLED HandleRecord
          /\ nrecv = log.consumer + nsent
    /\ Count(trace, "evaluate") <= 1
    /\ Count(trace, "send") <= 1
    /\ Count(trace, "get") <= 1
    /\ nsent <= nrecv
    /\ log.producer <= nsent

\* the second record is in its acknowledgment wait after the first one's
\* publish failed: the failed record was not sent again
C13_Witness ==
    /\ pc = "await" /\ nrecv = 2 /\ nsent = 2 /\ log.producer = 1
    /\ outcome = "publish_failed"
    /\ trace = <<"eval", "resolve", "lookup", "predict", "evaluate", "send">>

\* C14: the loop is entered only through the subscription, and the
\* subscription is to the full derived topic set: one topic
\* features_<sensor>_<horizon><unit> for each declared pair, with the
\* configured unit, no two pairs sharing a topic; before the subscription
\* there is no topic and no record has been taken.
C14_Subscription ==
    /\ InLoop =>
          /\ Len(topics) = NPairs
          /\ \A i \in 1..NPairs :
                topics[i] = features \o us \o SensorAt(i) \o us
                               \o IntToStr(HorizonAt(i)) \o time_offset
          /\ \A i, j \in 1..NPairs :
                topics[i] = topics[j] =>
                    (SensorAt(i) = SensorAt(j) /\ HorizonAt(i) = HorizonAt(j))
    /\ ~InLoop => (topics = <<>> /\ nrecv = 0 /\ ~ENABLED HandleRecord)

\* a record was taken under a subscription to two topics of the unit "min"
C14_Witness ==
    /\ pc = "poll" /\ nrecv = 1
    /\ time_offset = <<"m", "i", "n">>
    /\ Len(topics) = 2
    /\ topics[1] = <<"f", "e", "a", "t", "u", "r", "e", "s", "_", "a", "_", "b",
                     "_", "2", "m", "i", "n">>

\* C15 (as claimed): for every declared pair the save and load phases use the
\* file model_<sensor>_<horizon><u> and the fit phase the dataset file
\* <sensor>_<horizon><u>.json, u being the configured unit, the one of the
\* input topic names; distinct pairs get distinct files.
C15_FileNamesUseUnit ==
    /\ \A k \in DOMAIN opened.fit :
          opened.fit[k] = k[1] \o us \o IntToStr(k[2]) \o time_offset \o dot_json
    /\ \A k \in DOMAIN opened.save :
          opened.save[k] = model_ \o us \o k[1] \o us \o IntToStr(k[2]) \o time_offset
    /\ \A k \in DOMAIN opened.load :
          opened.load[k] = model_ \o us \o k[1] \o us \o IntToStr(k[2]) \o time_offset
    /\ \A k1, k2 \in DOMAIN opened.save :
          opened.save[k1] = opened.save[k2] => k1 = k2

\* C16 (as claimed): the liveness signal is decoupled from the ingestion
\* loop: with the watchdog and live predictions both requested, the watchdog
\* branch never keeps main() from going on to the predictions phase.
C16_WatchdogDecoupled ==
    (args.watchdog /\ args.predict) =>
        /\ crash # "watchdog"
        /\ pc = "watchdog" => ENABLED (Next /\ pc' = "subscribe")

\* the calls of one pass of the loop body, in the order the code makes them
CallOrder == <<"eval", "resolve", "lookup", "predict", "evaluate", "send", "get">>

\* C17: the steps for a record are made in the order resolve, lookup,
\* predict, evaluate, publish: the calls made so far are always a prefix of
\* that order, and what is waiting to be acknowledged is the record evaluate
\* returned, whose error is measured against the record's own first
\* feature-vector element, for the model its topic resolved to.
C17_StepOrder ==
    /\ Len(trace) <= Len(CallOrder)
    /\ \A i \in DOMAIN trace : trace[i] = CallOrder[i]
    /\ pc = "await" =>
          /\ trace = SubSeq(CallOrder, 1, 6)
          /\ inflight.value = output
          /\ output.stampm = msg.value.timestamp
          /\ output.error = AbsDiff(output.value, msg.value.ftr_vector[1])
          /\ <<output.sensor_id, output.horizon>> = key
          /\ \E r \in {Resolve(msg.topic, time_offset)} :
                key = <<r.sensor, r.horizon>>

\* a prediction of 0 for a record whose measurement is 1 is waiting to be
\* acknowledged
C17_Witness ==
    /\ pc = "await"
    /\ msg.value.ftr_vector[1] = 1 /\ output.value = 0 /\ output.error = 1
    /\ inflight.value.error = 1
    /\ trace = <<"eval", "resolve", "lookup", "predict", "evaluate", "send">>

\* C18: a record that fails in decoding, field extraction, key resolution,
\* registry lookup or predict changes nothing but the error log: every model,
\* the saved files and the count of publishes are after it what they were
\* before, nothing is handed to the producer, and evaluate is not called.
C18_FailedRecordNoEffect ==
    [][(pc = "poll" /\ nrecv' = nrecv + 1 /\ pc' = "poll"
           /\ outcome' \in EarlyErrors \cup {"predict_error"}) =>
          /\ models' = models
          /\ files' = files
          /\ nsent' = nsent
          /\ inflight' = NoSent /\ inflight = NoSent
          /\ Count(trace', "evaluate") = 0
          /\ Count(trace', "send") = 0
          /\ log'.consumer = log.consumer + 1]_vars

\* a record whose predict failed came after a record that was evaluated and
\* published: the evaluation is still there, and nothing more
C18_Witness ==
    /\ pc = "poll" /\ outcome = "predict_error"
    /\ nrecv = 2 /\ nsent = 1 /\ log.consumer = 1
    /\ ~args.load
    /\ key \in Declared
    /\ models[key[1]][key[2]].evaluated = 1
    /\ trace = <<"eval", "resolve", "lookup", "predict">>

\* a phase has visited every declared pair, if it was requested at all
InitDone ==
    \A k \in Declared : k[1] \in DOMAIN models /\ k[2] \in DOMAIN models[k[1]]
FitDone == args.fit => DOMAIN opened.fit = Declared
SaveDone == args.save => DOMAIN opened.save = Declared
LoadDone == args.load => DOMAIN opened.load = Declared

\* C19: the phases run in the order initialize, fit, save, load, predict,
\* each requested phase visiting every declared pair before the next one
\* starts: a phase has begun only if it was requested and all requested
\* phases before it are complete, the loop is entered only after all of
\* them, a pair is saved to and loaded from the same file, and with fit and
\* save both requested the file of a saved pair holds the pair's state after
\* its fit.
C19_PhaseOrder ==
    /\ DOMAIN opened.fit # {} => (args.fit /\ InitDone)
    /\ DOMAIN opened.save # {} => (args.save /\ InitDone /\ FitDone)
    /\ DOMAIN opened.load # {} => (args.load /\ InitDone /\ FitDone /\ SaveDone)
    /\ (InLoop \/ nrecv > 0) => (InitDone /\ FitDone /\ SaveDone /\ LoadDone)
    /\ \A k \in (DOMAIN opened.save) \cap (DOMAIN opened.load) :
          opened.save[k] = opened.load[k]
    /\ (args.fit /\ args.save) =>
          \A k \in DOMAIN opened.save :
              (crash = "save" /\ k = <<SensorAt(idx), HorizonAt(idx)>>)
              \/ /\ opened.save[k] \in DOMAIN files
                 /\ fitAttempts[k] = 1
                 /\ files[opened.save[k]].fitted = models[k[1]][k[2]].fitted
                 /\ files[opened.save[k]].evaluated = 0

\* fit, save and load all ran, the first pair's fit failed and the last
\* one's succeeded, and the loop is handling records with the models as they
\* were saved and loaded
C19_Witness ==
    /\ args.fit /\ args.save /\ args.load /\ pc = "await" /\ nrecv = 1
    /\ NPairs = 2
    /\ ~models[SensorAt(1)][HorizonAt(1)].fitted
    /\ models[SensorAt(2)][HorizonAt(2)].fitted
    /\ ~files[opened.load[<<SensorAt(1), HorizonAt(1)>>]].fitted
    /\ files[opened.load[<<SensorAt(2), HorizonAt(2)>>]].fitted

====
